---- MODULE Spec2Model ----
(***************************************************************************)
(* Offer counting of the FUB analytics dashboard                           *)
(* (dashboard/utils/dataProcessing.js, countOfferEvents).                  *)
(*                                                                         *)
(* One invocation of countOfferEvents is a run of the state machine:       *)
(*   filter -> classify -> sort -> dedup (one step per offer event)        *)
(*          -> return.                                                     *)
(* The input (stageChanges, startDate, endDate) is chosen by Init.         *)
(***************************************************************************)
EXTENDS Integers, Sequences, FiniteSets

VARIABLES
  stageChanges,         \* argument: array of stage change records
  startDate,            \* argument: a Date object or NoDate
  endDate,              \* argument: a Date object or NoDate
  pc,                   \* position inside countOfferEvents
  filteredChanges,      \* let filteredChanges
  offerEvents,          \* const offerEvents = []
  idx,                  \* position of the dedup forEach in offerEvents
  dedupedOfferEvents,   \* const dedupedOfferEvents = []
  lastOfferTimeByLead,  \* const lastOfferTimeByLead = {}
  result,               \* the returned { count, offerEvents }, NULL before
  returned,             \* log of the completed calls: arguments and result
  forDateCalls,         \* log of the getOfferEventsForDate calls
  dashboard             \* processSupabaseData: its arguments and locals

vars == <<stageChanges, startDate, endDate, pc, filteredChanges, offerEvents,
          idx, dedupedOfferEvents, lastOfferTimeByLead, result, returned,
          forDateCalls, dashboard>>

NULL == "null"

-----------------------------------------------------------------------------
(* Bounds of the model.                                                    *)

\* longest stageChanges array of the general families
MaxRecords == 3

\* number of successive countOfferEvents calls of SpecCalls
MaxCalls == 3

-----------------------------------------------------------------------------
(* Stage names.                                                            *)

OFFERS_MADE_STAGE == "ACQ - Offers Made"
OFFER_NOT_ACCEPTED_STAGE == "ACQ - Offer Not Accepted"
CONTRACT_SENT_STAGE == "ACQ - Contract Sent"

PRE_OFFER_STAGES ==
  << "ACQ - Qualified",
     "ACQ - Needs Offer",
     "Qualified Phase 2 - Day 3 to 2 Weeks",
     "Qualified Phase 3 - 2 Weeks to 4 Weeks",
     "ACQ - Listed on Market",
     "ACQ - Went Cold - Drip Campaign",
     "ACQ - Price Motivated",
     "ACQ - Not Ready to Sell",
     "ACQ - New Lead",
     "ACQ - Contacted",
     "ACQ - Attempted Contact" >>

\* Array.prototype.includes: strict equality against every element; null
\* equals no string.
Includes_NullMatches(arr, x) == x = NULL \/ \E i \in DOMAIN arr : arr[i] = x

Includes(arr, x) == \E i \in DOMAIN arr : arr[i] = x

-----------------------------------------------------------------------------
(* Time.  changed_at is an ISO-8601 UTC timestamp string; it is modelled   *)
(* by its calendar fields <<day since 1970-01-01, hour, minute, second>>.  *)
(* new Date(changed_at) converts it to epoch milliseconds.                 *)

MS_PER_SECOND == 1000
MS_PER_HOUR == 3600000
DEDUP_HOURS == 24

\* A Date object is <<its time value in epoch ms>>; null and undefined, where
\* a Date is expected, are the empty tuple.
Date(ms) == <<ms>>
NoDate == << >>
GetTime(date) == date[1]

\* new Date(x) of a string that does not parse: a Date object whose time
\* value is NaN ("Invalid Date").  It is a pair, to tell it from every Date(ms).
InvalidDate == <<0, 0>>
IsNaN(date) == Len(date) = 2

\* a changed_at without the four calendar fields does not parse
DateParse(ts) ==
  IF Len(ts) # 4
    THEN InvalidDate
    ELSE Date(((ts[1] * 24 + ts[2]) * 60 + ts[3]) * 60 * MS_PER_SECOND
                + ts[4] * MS_PER_SECOND)

\* hoursDiff = (eventTime - lastOfferTime) / (1000 * 60 * 60); hoursDiff >= 24.
\* The quotient of the integer millisecond difference by 3600000 is compared
\* with 24 without rounding: it holds exactly when diff >= 24 * 3600000.
\* With an Invalid Date on either side hoursDiff is NaN and NaN >= 24 is false.
HoursDiffAtLeast24_Strict(eventTime, lastOfferTime) ==
  /\ ~IsNaN(eventTime) /\ ~IsNaN(lastOfferTime)
  /\ (GetTime(eventTime) - GetTime(lastOfferTime)) > DEDUP_HOURS * MS_PER_HOUR

HoursDiffAtLeast24(eventTime, lastOfferTime) ==
  /\ ~IsNaN(eventTime) /\ ~IsNaN(lastOfferTime)
  /\ (GetTime(eventTime) - GetTime(lastOfferTime)) >= DEDUP_HOURS * MS_PER_HOUR

-----------------------------------------------------------------------------
(* Step 1: date filter (lines 100-107).                                    *)

InRange_ExclusiveEnd(change, s, e) ==
  LET changeDate == DateParse(change.changed_at)
  IN /\ ~IsNaN(changeDate)
     /\ GetTime(changeDate) >= GetTime(s) /\ GetTime(changeDate) < GetTime(e)

\* both comparisons are false for an Invalid Date
InRange(change, s, e) ==
  LET changeDate == DateParse(change.changed_at)
  IN /\ ~IsNaN(changeDate)
     /\ GetTime(changeDate) >= GetTime(s) /\ GetTime(changeDate) <= GetTime(e)

FilterChanges_Ignored(changes, s, e) == changes

FilterChanges_Lookback(changes, s, e) ==
  IF s # NoDate /\ e # NoDate
    THEN SelectSeq(changes, LAMBDA change :
           InRange(change, Date(GetTime(s) - DEDUP_HOURS * MS_PER_HOUR), e))
    ELSE changes

\* a filter that applies whichever bound is given
FilterChanges_EitherBound(changes, s, e) ==
  SelectSeq(changes, LAMBDA change :
    LET changeDate == DateParse(change.changed_at)
    IN /\ s # NoDate => GetTime(changeDate) >= GetTime(s)
       /\ e # NoDate => GetTime(changeDate) <= GetTime(e))

FilterChanges(changes, s, e) ==
  IF s # NoDate /\ e # NoDate
    THEN SelectSeq(changes, LAMBDA change : InRange(change, s, e))
    ELSE changes

-----------------------------------------------------------------------------
(* Step 2: classification (lines 112-148).                                 *)

\* the offer_type of a stage change, NULL when isOfferEvent stays false
OfferType_Rule3Mislabelled(change) ==
  IF change.stage_to = OFFERS_MADE_STAGE
    THEN "direct"
  ELSE IF change.stage_to = OFFER_NOT_ACCEPTED_STAGE
          /\ Includes(PRE_OFFER_STAGES, change.stage_from)
    THEN "implicit_not_accepted"
  ELSE IF change.stage_to = CONTRACT_SENT_STAGE
          /\ Includes(PRE_OFFER_STAGES, change.stage_from)
    THEN "implicit_not_accepted"
  ELSE NULL

OfferType_AnyFrom(change) ==
  IF change.stage_to = OFFERS_MADE_STAGE
    THEN "direct"
  ELSE IF change.stage_to = OFFER_NOT_ACCEPTED_STAGE
    THEN "implicit_not_accepted"
  ELSE IF change.stage_to = CONTRACT_SENT_STAGE
    THEN "implicit_contract_sent"
  ELSE NULL

OfferType(change) ==
  IF change.stage_to = OFFERS_MADE_STAGE
    THEN "direct"
  ELSE IF change.stage_to = OFFER_NOT_ACCEPTED_STAGE
          /\ Includes(PRE_OFFER_STAGES, change.stage_from)
    THEN "implicit_not_accepted"
  ELSE IF change.stage_to = CONTRACT_SENT_STAGE
          /\ Includes(PRE_OFFER_STAGES, change.stage_from)
    THEN "implicit_contract_sent"
  ELSE NULL

\* the object pushed onto offerEvents
OfferEvent(change) ==
  [ person_id  |-> change.person_id,
    stage_from |-> change.stage_from,
    stage_to   |-> change.stage_to,
    changed_at |-> change.changed_at,
    offer_type |-> OfferType(change) ]

RECURSIVE IdentifyOfferEvents(_)
IdentifyOfferEvents(changes) ==
  IF changes = << >> THEN << >>
  ELSE LET rest == IdentifyOfferEvents(Tail(changes))
       IN IF OfferType(Head(changes)) # NULL
            THEN <<OfferEvent(Head(changes))>> \o rest
            ELSE rest

-----------------------------------------------------------------------------
(* Step 3: sort by person_id, then by timestamp (lines 150-156).           *)

\* String.prototype.localeCompare on the lead ids of the model
LeadRank == [ L1 |-> 1, L2 |-> 2 ]
LocaleCompare(a, b) == LeadRank[a] - LeadRank[b]

\* a comparator that orders a lead's events latest first
CompareEvents_Descending(a, b) ==
  IF a.person_id # b.person_id
    THEN LocaleCompare(a.person_id, b.person_id)
  ELSE IF IsNaN(DateParse(a.changed_at)) \/ IsNaN(DateParse(b.changed_at))
    THEN 0
  ELSE GetTime(DateParse(b.changed_at)) - GetTime(DateParse(a.changed_at))

\* the difference of two Dates is NaN when one of them is invalid; sort
\* takes a comparator result of NaN for +0
CompareEvents(a, b) ==
  IF a.person_id # b.person_id
    THEN LocaleCompare(a.person_id, b.person_id)
  ELSE IF IsNaN(DateParse(a.changed_at)) \/ IsNaN(DateParse(b.changed_at))
    THEN 0
  ELSE GetTime(DateParse(a.changed_at)) - GetTime(DateParse(b.changed_at))

\* Array.prototype.sort is stable: an element goes behind every element that
\* does not compare greater than it.
RECURSIVE InsertSorted(_, _)
InsertSorted(sorted, x) ==
  IF sorted = << >> THEN <<x>>
  ELSE IF CompareEvents(sorted[Len(sorted)], x) > 0
    THEN Append(InsertSorted(SubSeq(sorted, 1, Len(sorted) - 1), x),
                sorted[Len(sorted)])
    ELSE Append(sorted, x)

\* the sort left out: offerEvents stays in input order
SortEvents_Unsorted(events) == events

RECURSIVE SortEvents(_)
SortEvents(events) ==
  IF events = << >> THEN << >>
  ELSE InsertSorted(SortEvents(SubSeq(events, 1, Len(events) - 1)),
                    events[Len(events)])

-----------------------------------------------------------------------------
(* Step 4: 24-hour deduplication per lead (lines 158-182).                 *)

\* const personId = event.person_id: the key of lastOfferTimeByLead
DedupKey_PerType(event) == <<event.person_id, event.offer_type>>

\* one last-offer time for all leads
DedupKey_Shared(event) == "lead"

DedupKey(event) == event.person_id

\* lastOfferTimeByLead[personId]; a missing property reads as undefined
LastOfferTime(map, key) == IF key \in DOMAIN map THEN map[key] ELSE NoDate

\* lastOfferTimeByLead[personId] = eventTime
SetLastOfferTime(map, key, t) ==
  [ k \in DOMAIN map \cup {key} |-> IF k = key THEN t ELSE map[k] ]

\* !lastOfferTimeByLead[personId]: the stored value is a Date object, which
\* is truthy whatever instant it holds; only a missing entry is falsy.
NoOfferYet_NumberFalsy(last) == last = NoDate \/ last = Date(0)

NoOfferYet(last) == last = NoDate

\* the body of offerEvents.forEach (lines 162-182) on one event: the new
\* dedupedOfferEvents and lastOfferTimeByLead
WalkEvent_AnchorOnPrevious(deduped, lastByLead, event) ==
  LET personId == DedupKey(event)
      eventTime == DateParse(event.changed_at)
      lastOfferTime == LastOfferTime(lastByLead, personId)
      keep == NoOfferYet(lastOfferTime)
                \/ HoursDiffAtLeast24(eventTime, lastOfferTime)
  IN [ deduped |-> IF keep THEN Append(deduped, event) ELSE deduped,
       lastByLead |-> SetLastOfferTime(lastByLead, personId, eventTime) ]

WalkEvent_NoDedup(deduped, lastByLead, event) ==
  [ deduped |-> Append(deduped, event),
    lastByLead |-> SetLastOfferTime(lastByLead, DedupKey(event),
                                    DateParse(event.changed_at)) ]

\* a walk that takes a lead's first event as the anchor without keeping it
WalkEvent_FirstOnlyAnchors(deduped, lastByLead, event) ==
  LET personId == DedupKey(event)
      eventTime == DateParse(event.changed_at)
      lastOfferTime == LastOfferTime(lastByLead, personId)
  IN IF NoOfferYet(lastOfferTime)
       THEN [ deduped |-> deduped,
              lastByLead |-> SetLastOfferTime(lastByLead, personId, eventTime) ]
     ELSE IF HoursDiffAtLeast24(eventTime, lastOfferTime)
       THEN [ deduped |-> Append(deduped, event),
              lastByLead |-> SetLastOfferTime(lastByLead, personId, eventTime) ]
     ELSE [ deduped |-> deduped, lastByLead |-> lastByLead ]

\* a walk that puts a kept event in front of the kept list
WalkEvent_Unshift(deduped, lastByLead, event) ==
  LET personId == DedupKey(event)
      eventTime == DateParse(event.changed_at)
      lastOfferTime == LastOfferTime(lastByLead, personId)
  IN IF NoOfferYet(lastOfferTime) \/ HoursDiffAtLeast24(eventTime, lastOfferTime)
       THEN [ deduped |-> <<event>> \o deduped,
              lastByLead |-> SetLastOfferTime(lastByLead, personId, eventTime) ]
     ELSE [ deduped |-> deduped, lastByLead |-> lastByLead ]

\* a walk that forgets the lead's anchor when it discards an event
WalkEvent_DiscardResetsAnchor(deduped, lastByLead, event) ==
  LET personId == DedupKey(event)
      eventTime == DateParse(event.changed_at)
      lastOfferTime == LastOfferTime(lastByLead, personId)
  IN IF NoOfferYet(lastOfferTime) \/ HoursDiffAtLeast24(eventTime, lastOfferTime)
       THEN [ deduped |-> Append(deduped, event),
              lastByLead |-> SetLastOfferTime(lastByLead, personId, eventTime) ]
     ELSE [ deduped |-> deduped,
            lastByLead |-> SetLastOfferTime(lastByLead, personId, NoDate) ]

WalkEvent(deduped, lastByLead, event) ==
  LET personId == DedupKey(event)
      eventTime == DateParse(event.changed_at)
      lastOfferTime == LastOfferTime(lastByLead, personId)
  IN IF NoOfferYet(lastOfferTime)
       THEN [ deduped |-> Append(deduped, event),
              lastByLead |-> SetLastOfferTime(lastByLead, personId, eventTime) ]
     ELSE IF HoursDiffAtLeast24(eventTime, lastOfferTime)
       THEN [ deduped |-> Append(deduped, event),
              lastByLead |-> SetLastOfferTime(lastByLead, personId, eventTime) ]
     ELSE [ deduped |-> deduped, lastByLead |-> lastByLead ]

RECURSIVE WalkFrom(_, _, _, _)
WalkFrom(events, i, deduped, lastByLead) ==
  IF i > Len(events) THEN deduped
  ELSE LET r == WalkEvent(deduped, lastByLead, events[i])
       IN WalkFrom(events, i + 1, r.deduped, r.lastByLead)

\* countOfferEvents as a function of its arguments (lines 94-199)
CountOfferEvents(changes, s, e) ==
  LET deduped == WalkFrom(SortEvents(IdentifyOfferEvents(FilterChanges(changes, s, e))),
                          1, << >>, << >>)
  IN [ count |-> Len(deduped), offerEvents |-> deduped ]

-----------------------------------------------------------------------------
(* Inputs.                                                                 *)

TS(d, h, m, s) == <<d, h, m, s>>

Change(p, from, to, at) ==
  [ person_id |-> p, stage_from |-> from, stage_to |-> to, changed_at |-> at ]

Direct(p, at)     == Change(p, "ACQ - Needs Offer", OFFERS_MADE_STAGE, at)
NotAccepted(p, at) == Change(p, "ACQ - Needs Offer", OFFER_NOT_ACCEPTED_STAGE, at)
ContractSent(p, at) == Change(p, "ACQ - Needs Offer", CONTRACT_SENT_STAGE, at)
Rejected(p, at)   == Change(p, OFFERS_MADE_STAGE, OFFER_NOT_ACCEPTED_STAGE, at)

T0h     == TS(0, 0, 0, 0)
T20h    == TS(0, 20, 0, 0)
T235959 == TS(0, 23, 59, 59)
T24h    == TS(1, 0, 0, 0)
T40h    == TS(1, 16, 0, 0)

WalkTimes == { T0h, T20h, T235959, T24h, T40h }

\* one lead, every offer type and a non-offer transition, every spacing
WalkRecords ==
  UNION { { Direct("L1", t), NotAccepted("L1", t), ContractSent("L1", t),
            Rejected("L1", t) } : t \in WalkTimes }

\* two leads, direct offers only
LeadRecords == { Direct(p, t) : p \in {"L1", "L2"}, t \in {T0h, T20h, T40h} }

StageFroms ==
  { PRE_OFFER_STAGES[i] : i \in DOMAIN PRE_OFFER_STAGES }
    \cup { OFFERS_MADE_STAGE, OFFER_NOT_ACCEPTED_STAGE, CONTRACT_SENT_STAGE,
           "ACQ - Under Contract", "ACQ - Closed Won", "Trash", NULL }

StageTos ==
  { OFFERS_MADE_STAGE, OFFER_NOT_ACCEPTED_STAGE, CONTRACT_SENT_STAGE,
    "ACQ - Qualified", "ACQ - Under Contract" }

\* every transition, alone or followed by a later direct offer of the lead
TransitionInputs ==
  UNION { { << Change("L1", from, to, T0h) >>,
            << Change("L1", from, to, T0h), Direct("L1", T40h) >> }
          : from \in StageFroms, to \in StageTos }

SeqsUpTo(S, n) == UNION { [1..k -> S] : k \in 0..n }

Inputs ==
  SeqsUpTo(WalkRecords, MaxRecords) \cup SeqsUpTo(LeadRecords, MaxRecords)
    \cup TransitionInputs

\* no window, or both bounds as Date objects
Windows ==
  { <<NoDate, NoDate>>,
    <<DateParse(T20h), DateParse(T40h)>>,
    <<DateParse(T0h), DateParse(T24h)>> }

-----------------------------------------------------------------------------
(* The state machine.                                                      *)

\* processSupabaseData is not running
NoDashboard == [ phase |-> "none" ]

\* the first call, with arguments out of the given sets
Start(inputs, windows) ==
  /\ stageChanges \in inputs
  /\ \E w \in windows : startDate = w[1] /\ endDate = w[2]
  /\ pc = "filter"
  /\ filteredChanges = << >>
  /\ offerEvents = << >>
  /\ idx = 1
  /\ dedupedOfferEvents = << >>
  /\ lastOfferTimeByLead = << >>
  /\ result = NULL
  /\ returned = << >>
  /\ forDateCalls = << >>
  /\ dashboard = NoDashboard

Init == Start(Inputs, Windows)

\* lines 100-107
Filter ==
  /\ pc = "filter"
  /\ filteredChanges' = FilterChanges(stageChanges, startDate, endDate)
  /\ pc' = "classify"
  /\ UNCHANGED <<stageChanges, startDate, endDate, offerEvents, idx,
                 dedupedOfferEvents, lastOfferTimeByLead, result, returned,
                 forDateCalls,
                 dashboard>>

\* lines 110-148
Classify ==
  /\ pc = "classify"
  /\ offerEvents' = IdentifyOfferEvents(filteredChanges)
  /\ pc' = "sort"
  /\ UNCHANGED <<stageChanges, startDate, endDate, filteredChanges, idx,
                 dedupedOfferEvents, lastOfferTimeByLead, result, returned,
                 forDateCalls,
                 dashboard>>

\* lastOfferTimeByLead declared outside the function: the sort and the new
\* dedupedOfferEvents, but the map of the previous call
\* a sort of filteredChanges in place; without both bounds filteredChanges
\* is the stageChanges array itself (line 101)
Sort_SortsInput ==
  /\ pc = "sort"
  /\ offerEvents' = SortEvents(offerEvents)
  /\ filteredChanges' = SortEvents(filteredChanges)
  /\ stageChanges' = IF startDate # NoDate /\ endDate # NoDate
                       THEN stageChanges
                       ELSE SortEvents(stageChanges)
  /\ idx' = 1
  /\ dedupedOfferEvents' = << >>
  /\ lastOfferTimeByLead' = << >>
  /\ pc' = "dedup"
  /\ UNCHANGED <<startDate, endDate, result, returned, forDateCalls,
                 dashboard>>

Sort_SharedMap ==
  /\ pc = "sort"
  /\ offerEvents' = SortEvents(offerEvents)
  /\ idx' = 1
  /\ dedupedOfferEvents' = << >>
  /\ pc' = "dedup"
  /\ UNCHANGED <<stageChanges, startDate, endDate, filteredChanges, result,
                 lastOfferTimeByLead, returned, forDateCalls,
                 dashboard>>

\* lines 150-160: the sort, then the declarations of dedupedOfferEvents and
\* lastOfferTimeByLead, new and empty in every call
Sort ==
  /\ pc = "sort"
  /\ offerEvents' = SortEvents(offerEvents)
  /\ idx' = 1
  /\ dedupedOfferEvents' = << >>
  /\ lastOfferTimeByLead' = << >>
  /\ pc' = "dedup"
  /\ UNCHANGED <<stageChanges, startDate, endDate, filteredChanges, result,
                 returned, forDateCalls,
                 dashboard>>

\* one iteration of offerEvents.forEach (lines 162-182)
Walk ==
  /\ pc = "dedup"
  /\ idx <= Len(offerEvents)
  /\ LET r == WalkEvent(dedupedOfferEvents, lastOfferTimeByLead, offerEvents[idx])
     IN /\ dedupedOfferEvents' = r.deduped
        /\ lastOfferTimeByLead' = r.lastByLead
  /\ idx' = idx + 1
  /\ UNCHANGED <<stageChanges, startDate, endDate, pc, filteredChanges,
                 offerEvents, result, returned, forDateCalls,
                 dashboard>>

\* lastOfferTimeByLead[event.person_id] at the event the walk stands on
CurrentLastOfferTime ==
  LastOfferTime(lastOfferTimeByLead, DedupKey(offerEvents[idx]))

\* lines 166-169: first offer for this lead
KeepFirst ==
  /\ pc = "dedup" /\ idx <= Len(offerEvents)
  /\ NoOfferYet(CurrentLastOfferTime)
  /\ Walk

\* lines 170-179: 24+ hours since the last offer for this lead
KeepSpaced ==
  /\ pc = "dedup" /\ idx <= Len(offerEvents)
  /\ ~NoOfferYet(CurrentLastOfferTime)
  /\ HoursDiffAtLeast24(DateParse(offerEvents[idx].changed_at), CurrentLastOfferTime)
  /\ Walk

\* line 180: within 24 hours of the previous offer, skipped
SkipWithin24h ==
  /\ pc = "dedup" /\ idx <= Len(offerEvents)
  /\ ~NoOfferYet(CurrentLastOfferTime)
  /\ ~HoursDiffAtLeast24(DateParse(offerEvents[idx].changed_at), CurrentLastOfferTime)
  /\ Walk

\* what the caller has seen of a completed call
Completed(res) ==
  [ stageChanges |-> stageChanges, startDate |-> startDate,
    endDate |-> endDate, result |-> res ]

\* a return that takes the first kept event for granted
Return_FirstKeptRequired ==
  /\ pc = "dedup"
  /\ idx > Len(offerEvents)
  /\ Len(dedupedOfferEvents) >= 1
  /\ result' = [ count |-> Len(dedupedOfferEvents),
                 offerEvents |-> dedupedOfferEvents ]
  /\ returned' = Append(returned, Completed(result'))
  /\ pc' = "done"
  /\ UNCHANGED <<stageChanges, startDate, endDate, filteredChanges,
                 offerEvents, idx, dedupedOfferEvents, lastOfferTimeByLead,
                 forDateCalls,
                 dashboard>>

\* a return that counts the offer events before deduplication
Return_CountsRaw ==
  /\ pc = "dedup"
  /\ idx > Len(offerEvents)
  /\ result' = [ count |-> Len(offerEvents),
                 offerEvents |-> dedupedOfferEvents ]
  /\ returned' = Append(returned, Completed(result'))
  /\ pc' = "done"
  /\ UNCHANGED <<stageChanges, startDate, endDate, filteredChanges,
                 offerEvents, idx, dedupedOfferEvents, lastOfferTimeByLead,
                 forDateCalls,
                 dashboard>>

\* lines 195-198
Return ==
  /\ pc = "dedup"
  /\ idx > Len(offerEvents)
  /\ result' = [ count |-> Len(dedupedOfferEvents),
                 offerEvents |-> dedupedOfferEvents ]
  /\ returned' = Append(returned, Completed(result'))
  /\ pc' = "done"
  /\ UNCHANGED <<stageChanges, startDate, endDate, filteredChanges,
                 offerEvents, idx, dedupedOfferEvents, lastOfferTimeByLead,
                 forDateCalls,
                 dashboard>>

Next ==
  \/ Filter
  \/ Classify
  \/ Sort
  \/ KeepFirst
  \/ KeepSpaced
  \/ SkipWithin24h
  \/ Return

Spec == Init /\ [][Next]_vars

-----------------------------------------------------------------------------
(* Successive calls.  countOfferEvents is synchronous, so calls follow one *)
(* another; a new call binds new arguments, and its locals are written     *)
(* (lines 101, 110, 159, 160) before they are read.                        *)

CallInputs ==
  { << >>,
    << Direct("L1", T0h) >>,
    << Direct("L1", T20h) >>,
    << Direct("L1", T0h), Direct("L1", T20h), Direct("L1", T40h) >>,
    << Direct("L1", T0h), NotAccepted("L1", T24h) >>,
    << Direct("L2", T20h), Direct("L1", T20h) >> }

CallWindows == { <<NoDate, NoDate>>, <<DateParse(T20h), DateParse(T40h)>> }

\* the next invocation, line 94
Call ==
  /\ pc = "done"
  /\ Len(returned) < MaxCalls
  /\ stageChanges' \in CallInputs
  /\ \E w \in CallWindows : startDate' = w[1] /\ endDate' = w[2]
  /\ pc' = "filter"
  /\ UNCHANGED <<filteredChanges, offerEvents, idx, dedupedOfferEvents,
                 lastOfferTimeByLead, result, returned, forDateCalls,
                 dashboard>>

InitCalls == Start(CallInputs, CallWindows)

NextCalls ==
  \/ Filter
  \/ Classify
  \/ Sort
  \/ KeepFirst
  \/ KeepSpaced
  \/ SkipWithin24h
  \/ Return
  \/ Call

SpecCalls == InitCalls /\ [][NextCalls]_vars

-----------------------------------------------------------------------------
(* Malformed records: a stage change without stage_to (undefined, which    *)
(* like null equals no stage name) or with a changed_at that does not      *)
(* parse.  The arrays hold at most two records, so the comparator of the   *)
(* sort stays consistent and the stable order is the one of the language.  *)

BadTS == << >>

MalformedRecords ==
  { Direct("L1", BadTS), NotAccepted("L1", BadTS),
    Change("L1", "ACQ - Needs Offer", NULL, T0h),
    Direct("L1", T0h), Direct("L1", T20h), Direct("L1", T40h) }

MalformedInputs ==
  { << >> } \cup { <<a>> : a \in MalformedRecords }
    \cup { <<a, b>> : a \in MalformedRecords, b \in MalformedRecords }

InitMalformed == Start(MalformedInputs, CallWindows)

SpecMalformed == InitMalformed /\ [][Next]_vars

-----------------------------------------------------------------------------
(* Calls with one bound only: startDate and endDate default to null (line  *)
(* 94) and a caller may pass either of them alone.                         *)

OneBoundWindows ==
  { <<NoDate, NoDate>>,
    <<DateParse(T20h), NoDate>>,
    <<NoDate, DateParse(T20h)>>,
    <<DateParse(T20h), DateParse(T40h)>> }

OneBoundRecords ==
  { Direct("L1", T0h), Direct("L1", T20h), Direct("L1", T24h),
    Direct("L1", T40h), NotAccepted("L1", T20h), Rejected("L1", T20h),
    Direct("L2", T20h) }

OneBoundInputs == SeqsUpTo(OneBoundRecords, 2)

InitOneBound == Start(OneBoundInputs, OneBoundWindows)

SpecOneBound == InitOneBound /\ [][Next]_vars

-----------------------------------------------------------------------------
(* getOfferEventsForDate (lines 205-259): the offer events of one Eastern  *)
(* calendar day.  The instants of the model lie in the first days of 1970, *)
(* when America/New_York is five hours behind UTC.                         *)

EASTERN_UTC_OFFSET_HOURS == 5

\* the days an instant of the model can fall on, as en-CA date strings
EasternDates ==
  << "1969-12-31", "1970-01-01", "1970-01-02", "1970-01-03", "1970-01-04",
     "1970-01-05", "1970-01-06" >>

\* lines 217-222: Intl.DateTimeFormat('en-CA', {timeZone: 'America/New_York',
\* ...}).format(changeDateTime)
FormatEasternDate(date) ==
  EasternDates[ ((GetTime(date) + (24 - EASTERN_UTC_OFFSET_HOURS) * MS_PER_HOUR)
                   \div (24 * MS_PER_HOUR)) + 1 ]

\* line 224: the record falls on the target date
OnTargetDate(change, targetDateStr) ==
  FormatEasternDate(DateParse(change.changed_at)) = targetDateStr

\* lines 214-258: the records on the target date that match a rule, in input
\* order (the rules of lines 234-243 are those of lines 124-133); nothing
\* follows the loop but the return
GetOfferEventsForDate(changes, targetDateStr) ==
  IdentifyOfferEvents(
    SelectSeq(changes, LAMBDA change : OnTargetDate(change, targetDateStr)))

\* one record, two instants of one Eastern day, the days around it, another
\* offer type, another lead, a transition that is no offer
ForDateRecords ==
  { Direct("L1", T0h), Direct("L1", T20h), Direct("L1", T24h),
    Direct("L1", T40h), NotAccepted("L1", T20h), Rejected("L1", T20h),
    Direct("L2", T20h) }

ForDateInputs == SeqsUpTo(ForDateRecords, 2)

\* a call of getOfferEventsForDate on the collection countOfferEvents was
\* given; format throws a RangeError on an Invalid Date, so the call returns
\* only when every changed_at parses
ForDate ==
  /\ pc = "done"
  /\ Len(forDateCalls) < MaxCalls
  /\ \A i \in DOMAIN stageChanges : ~IsNaN(DateParse(stageChanges[i].changed_at))
  /\ \E targetDateStr \in { EasternDates[d] : d \in DOMAIN EasternDates } :
       forDateCalls' =
         Append(forDateCalls,
                [ stageChanges |-> stageChanges,
                  targetDateStr |-> targetDateStr,
                  offerEvents |-> GetOfferEventsForDate(stageChanges, targetDateStr) ])
  /\ UNCHANGED <<stageChanges, startDate, endDate, pc, filteredChanges,
                 offerEvents, idx, dedupedOfferEvents, lastOfferTimeByLead,
                 result, returned,
                 dashboard>>

InitForDate == Start(ForDateInputs, CallWindows)

NextForDate ==
  \/ Filter
  \/ Classify
  \/ Sort
  \/ KeepFirst
  \/ KeepSpaced
  \/ SkipWithin24h
  \/ Return
  \/ ForDate

SpecForDate == InitForDate /\ [][NextForDate]_vars

-----------------------------------------------------------------------------
(* processSupabaseData (lines 603-1140), as far as offers go: the records  *)
(* of the requested period, the daily buckets, the call of                 *)
(* countOfferEvents without bounds, the bucketing of its events, the       *)
(* weekly buckets and the total of the summary.  The bulk-import filter of *)
(* lines 605-617 drops two literal timestamps of 2025, none of them in the *)
(* model.                                                                  *)

\* lines 624-627
RequestedPeriodChanges(changes, s, e) ==
  SelectSeq(changes, LAMBDA change : InRange(change, s, e))

\* Math.ceil of a / b for a >= 0
Ceil(a, b) == (a + b - 1) \div b

\* lines 631-661: one bucket per day from startDate on; setDate moves by
\* whole local days, 24 hours each in these weeks
CreateDailyBuckets(s, e) ==
  LET totalDays == Ceil(GetTime(e) - GetTime(s), 24 * MS_PER_HOUR) + 1
  IN [ i \in 1..totalDays |->
         [ date |-> FormatEasternDate(Date(GetTime(s) + (i - 1) * 24 * MS_PER_HOUR)),
           offers |-> 0 ] ]

\* lines 720-734: dailyData.find gives the first bucket of the event's
\* Eastern date, if any, and its offers go up by one
AddOfferToDailyBucket(dailyData, offerEvent) ==
  LET easternDateStr == FormatEasternDate(DateParse(offerEvent.changed_at))
      found == { i \in DOMAIN dailyData : dailyData[i].date = easternDateStr }
  IN IF found = { } THEN dailyData
     ELSE LET first == CHOOSE i \in found : \A j \in found : i <= j
          IN [ dailyData EXCEPT ![first].offers = @ + 1 ]

\* lines 7-14 and 739-741: the Monday of the week of new Date(day.date), as
\* a date string.  new Date('YYYY-MM-DD') is midnight UTC, which a runtime
\* west of UTC takes for the evening before; 1969-12-31 is a Wednesday.
WeekKey(dateStr, west) ==
  LET utcDay == CHOOSE i \in DOMAIN EasternDates : EasternDates[i] = dateStr
      localDay == IF west THEN utcDay - 1 ELSE utcDay
      getDay == (localDay + 2) % 7
      monday == localDay - ((getDay + 6) % 7)
  IN IF monday < 1 THEN "1969-12-29" ELSE EasternDates[monday]

\* lines 742-759 for one day: the week is created at its first day, then the
\* day's offers are added to it
AddDayToWeeks_Overwrite(weeks, day, west) ==
  LET weekKey == WeekKey(day.date, west)
      has == { j \in DOMAIN weeks : weeks[j].date = weekKey }
  IN IF has = { }
       THEN Append(weeks, [ date |-> weekKey, offers |-> day.offers ])
     ELSE LET j == CHOOSE x \in has : TRUE
          IN [ weeks EXCEPT ![j].offers = day.offers ]

AddDayToWeeks(weeks, day, west) ==
  LET weekKey == WeekKey(day.date, west)
      has == { j \in DOMAIN weeks : weeks[j].date = weekKey }
  IN IF has = { }
       THEN Append(weeks, [ date |-> weekKey, offers |-> day.offers ])
     ELSE LET j == CHOOSE x \in has : TRUE
          IN [ weeks EXCEPT ![j].offers = @ + day.offers ]

\* lines 736-763: the days are in ascending order, so the weeks are created
\* in ascending order and the sort of line 763 leaves them in place
RECURSIVE GenerateWeeklyData(_, _, _, _)
GenerateWeeklyData(dailyData, i, weeks, west) ==
  IF i > Len(dailyData) THEN weeks
  ELSE GenerateWeeklyData(dailyData, i + 1,
                          AddDayToWeeks(weeks, dailyData[i], west), west)

T4d12h == TS(4, 12, 0, 0)

\* offers of two leads in two weeks: Wednesday to Friday, and the Monday after
BucketRecords ==
  { Direct("L1", T0h), Direct("L1", T20h), Direct("L1", T40h),
    Direct("L1", T4d12h), NotAccepted("L1", T20h), Direct("L2", T20h) }

BucketInputs == SeqsUpTo(BucketRecords, MaxRecords)

\* startDate and endDate of the requested period
BucketPeriods ==
  { <<DateParse(T0h), DateParse(T40h)>>,
    <<DateParse(T20h), DateParse(T4d12h)>>,
    <<DateParse(T0h), DateParse(T4d12h)>> }

\* lines 603-678: processSupabaseData up to its call of countOfferEvents on
\* requestedPeriodChanges, without bounds
InitBuckets ==
  /\ \E changes \in BucketInputs, period \in BucketPeriods, west \in BOOLEAN :
       /\ dashboard = [ phase |-> "offers",
                        stageChanges |-> changes,
                        startDate |-> period[1],
                        endDate |-> period[2],
                        west |-> west,
                        dailyData |-> CreateDailyBuckets(period[1], period[2]),
                        next |-> 1,
                        weeklyData |-> << >>,
                        offersTotal |-> 0 ]
       /\ stageChanges = RequestedPeriodChanges(changes, period[1], period[2])
  /\ startDate = NoDate
  /\ endDate = NoDate
  /\ pc = "filter"
  /\ filteredChanges = << >>
  /\ offerEvents = << >>
  /\ idx = 1
  /\ dedupedOfferEvents = << >>
  /\ lastOfferTimeByLead = << >>
  /\ result = NULL
  /\ returned = << >>
  /\ forDateCalls = << >>

\* lines 720-734: one iteration of dedupedOfferEvents.forEach
BucketOffer ==
  /\ pc = "done"
  /\ dashboard.phase = "offers"
  /\ dashboard.next <= Len(result.offerEvents)
  /\ dashboard' =
       [ dashboard EXCEPT
           !.dailyData = AddOfferToDailyBucket(@, result.offerEvents[dashboard.next]),
           !.next = @ + 1 ]
  /\ UNCHANGED <<stageChanges, startDate, endDate, pc, filteredChanges,
                 offerEvents, idx, dedupedOfferEvents, lastOfferTimeByLead,
                 result, returned, forDateCalls>>

\* lines 736-763
Weekly ==
  /\ pc = "done"
  /\ dashboard.phase = "offers"
  /\ dashboard.next > Len(result.offerEvents)
  /\ dashboard' =
       [ dashboard EXCEPT
           !.weeklyData = GenerateWeeklyData(dashboard.dailyData, 1, << >>,
                                             dashboard.west),
           !.phase = "totals" ]
  /\ UNCHANGED <<stageChanges, startDate, endDate, pc, filteredChanges,
                 offerEvents, idx, dedupedOfferEvents, lastOfferTimeByLead,
                 result, returned, forDateCalls>>

\* lines 782-784 and the summary of lines 1114-1124
Totals ==
  /\ pc = "done"
  /\ dashboard.phase = "totals"
  /\ dashboard' = [ dashboard EXCEPT !.offersTotal = result.count,
                                     !.phase = "summary" ]
  /\ UNCHANGED <<stageChanges, startDate, endDate, pc, filteredChanges,
                 offerEvents, idx, dedupedOfferEvents, lastOfferTimeByLead,
                 result, returned, forDateCalls>>

NextBuckets ==
  \/ Filter
  \/ Classify
  \/ Sort
  \/ KeepFirst
  \/ KeepSpaced
  \/ SkipWithin24h
  \/ Return
  \/ BucketOffer
  \/ Weekly
  \/ Totals

SpecBuckets == InitBuckets /\ [][NextBuckets]_vars

-----------------------------------------------------------------------------
(* Properties.                                                             *)

\* the instant of an event or stage change, in epoch ms
TimeOf(r) == GetTime(DateParse(r.changed_at))

DayMs == 24 * 3600 * MS_PER_SECOND

Abs(n) == IF n < 0 THEN 0 - n ELSE n

HasWindow == startDate # NoDate /\ endDate # NoDate

\* the events of lead p in a sequence of events
OfLead(events, p) == SelectSeq(events, LAMBDA ev : ev.person_id = p)

TimesOf(events) == [ i \in DOMAIN events |-> TimeOf(events[i]) ]

LeadsOf(events) == { events[i].person_id : i \in DOMAIN events }

\* no two events of one lead at different positions lie less than 24h apart
SpacedPerLead(events) ==
  \A i, j \in DOMAIN events :
    (i # j /\ events[i].person_id = events[j].person_id)
      => Abs(TimeOf(events[i]) - TimeOf(events[j])) >= DayMs

\* C1: for every input, windowed or not, the kept events of every lead are
\* pairwise (hence consecutively, in ascending order) at least 24 hours apart,
\* during the walk and in the returned events.
C1_KeptAtLeast24hApart ==
  /\ SpacedPerLead(dedupedOfferEvents)
  /\ pc = "done" => SpacedPerLead(result.offerEvents)

\* a windowed call returned two kept events of one lead and discarded another
C1_Witness ==
  /\ pc = "done"
  /\ HasWindow
  /\ \E i, j \in DOMAIN result.offerEvents :
       i # j /\ result.offerEvents[i].person_id = result.offerEvents[j].person_id
  /\ Len(offerEvents) > result.count

\* the time of the lead's most recently kept event, as the kept list shows it
LastKeptTimes(p) == TimesOf(OfLead(dedupedOfferEvents, p))

\* what one step of the walk must do when it anchors on the last kept event
C2_Step ==
  (pc = "dedup" /\ idx <= Len(offerEvents)) =>
    LET ev == offerEvents[idx]
        kept == LastKeptTimes(ev.person_id)
        first == \A k \in 1..(idx - 1) : offerEvents[k].person_id # ev.person_id
        keep == \/ first
                \/ /\ kept # << >>
                   /\ TimeOf(ev) - kept[Len(kept)] >= DayMs
    IN dedupedOfferEvents' =
         IF keep THEN Append(dedupedOfferEvents, ev) ELSE dedupedOfferEvents

P5Input == << Direct("L1", T0h), Direct("L1", T20h), Direct("L1", T40h) >>

\* C2: each step of the walk keeps the event exactly when it is the lead's
\* first offer event or lies at least 24h after the lead's most recently kept
\* event; direct offers at 0h, 20h and 40h return kept = {0h, 40h}, count 2.
C2_GreedyAnchor ==
  [][ /\ C2_Step
      /\ (pc' = "done" /\ stageChanges = P5Input /\ ~HasWindow)
           => /\ result'.count = 2
              /\ TimesOf(result'.offerEvents) = << 0, 40 * MS_PER_HOUR >> ]_vars

C2_Witness ==
  /\ pc = "done"
  /\ stageChanges = P5Input
  /\ ~HasWindow
  /\ result.count = 2

\* C3: the threshold is inclusive and exact: an offer event exactly 24h after
\* a kept event of its lead is kept, one 23h59m59s (or any positive time
\* below 24h) after a kept event of its lead is not.
C3_InclusiveThreshold ==
  pc = "done" =>
    \A k \in DOMAIN result.offerEvents, i \in DOMAIN offerEvents :
      LET kept == result.offerEvents[k]
          ev == offerEvents[i]
          diff == TimeOf(ev) - TimeOf(kept)
          evKept == \E j \in DOMAIN result.offerEvents :
                      /\ result.offerEvents[j].person_id = ev.person_id
                      /\ TimeOf(result.offerEvents[j]) = TimeOf(ev)
      IN kept.person_id = ev.person_id =>
           /\ diff = DayMs => evKept
           /\ diff = DayMs - MS_PER_SECOND => ~evKept
           /\ (0 < diff /\ diff < DayMs) => ~evKept

\* offers at 0h, 23:59:59 and 24:00:00 of one lead: the second is discarded,
\* the third kept
C3_Witness ==
  /\ pc = "done"
  /\ TimesOf(offerEvents) = << 0, DayMs - MS_PER_SECOND, DayMs >>
  /\ Cardinality(LeadsOf(offerEvents)) = 1
  /\ TimesOf(result.offerEvents) = << 0, DayMs >>

\* the reference classifier of the specification (section 4.1)
PreOfferNames == { PRE_OFFER_STAGES[i] : i \in DOMAIN PRE_OFFER_STAGES }

RefType(from, to) ==
  CASE to = "ACQ - Offers Made" -> "direct"
    [] to = "ACQ - Offer Not Accepted" /\ from \in PreOfferNames
         -> "implicit_not_accepted"
    [] to = "ACQ - Contract Sent" /\ from \in PreOfferNames
         -> "implicit_contract_sent"
    [] OTHER -> NULL

RefIsOffer(change) == RefType(change.stage_from, change.stage_to) # NULL

\* C4: the classification step yields, in input order, one offer event for
\* every record the reference classifier accepts, typed as the reference
\* classifier types it, and nothing for the other records.
C4_ClassifierMatchesReference ==
  pc = "sort" =>
    LET accepted == SelectSeq(filteredChanges, RefIsOffer)
    IN /\ Len(offerEvents) = Len(accepted)
       /\ \A i \in DOMAIN accepted :
            offerEvents[i] =
              [ person_id  |-> accepted[i].person_id,
                stage_from |-> accepted[i].stage_from,
                stage_to   |-> accepted[i].stage_to,
                changed_at |-> accepted[i].changed_at,
                offer_type |-> RefType(accepted[i].stage_from,
                                       accepted[i].stage_to) ]

\* classification has produced both implicit types and dropped a record
C4_Witness ==
  /\ pc = "sort"
  /\ { offerEvents[i].offer_type : i \in DOMAIN offerEvents }
       = { "implicit_not_accepted", "implicit_contract_sent" }
  /\ Len(filteredChanges) > Len(offerEvents)

\* stage_from values that are not pre-offer: the post-offer stages of the
\* documentation, a name outside the enumeration, and null
NotPreOfferFroms ==
  { "ACQ - Offers Made", "ACQ - Contract Sent", "ACQ - Under Contract",
    "ACQ - Offer Not Accepted", "ACQ - Closed Won", "Trash", NULL }

ImplicitTargets == { "ACQ - Offer Not Accepted", "ACQ - Contract Sent" }

\* C5: a transition into Offer Not Accepted or Contract Sent from a stage
\* that is not one of the 11 pre-offer names never becomes an offer event;
\* an input of such transitions only counts 0, and Needs Offer -> Offers Made
\* followed by Offers Made -> Offer Not Accepted of the same lead counts 1.
C5_PostOfferFromNeverCounts ==
  /\ Cardinality(PreOfferNames) = 11
  /\ \A i \in DOMAIN offerEvents :
       offerEvents[i].stage_to \in ImplicitTargets
         => offerEvents[i].stage_from \notin NotPreOfferFroms
  /\ pc = "done" =>
       /\ \A i \in DOMAIN result.offerEvents :
            result.offerEvents[i].stage_to \in ImplicitTargets
              => result.offerEvents[i].stage_from \notin NotPreOfferFroms
       /\ (\A i \in DOMAIN stageChanges :
             /\ stageChanges[i].stage_to \in ImplicitTargets
             /\ stageChanges[i].stage_from \in NotPreOfferFroms)
            => result.count = 0
       /\ ( /\ Len(stageChanges) = 2
            /\ ~HasWindow
            /\ stageChanges[1].stage_from = "ACQ - Needs Offer"
            /\ stageChanges[1].stage_to = "ACQ - Offers Made"
            /\ stageChanges[2].stage_from = "ACQ - Offers Made"
            /\ stageChanges[2].stage_to = "ACQ - Offer Not Accepted"
            /\ stageChanges[2].person_id = stageChanges[1].person_id )
            => result.count = 1

\* the rejection comes 40h after the direct offer, so only the classifier
\* (not the 24-hour rule) keeps it out of the count
C5_Witness ==
  /\ pc = "done"
  /\ stageChanges = << Direct("L1", T0h), Rejected("L1", T40h) >>
  /\ ~HasWindow
  /\ result.count = 1

\* C6: a record with stage_from = null never yields an implicit offer event,
\* and yields a direct offer event when its stage_to is ACQ - Offers Made.
C6_NullFromOnlyDirect ==
  /\ \A i \in DOMAIN offerEvents :
       offerEvents[i].stage_from = NULL
         => /\ offerEvents[i].offer_type = "direct"
            /\ offerEvents[i].stage_to = "ACQ - Offers Made"
  /\ pc \notin {"filter", "classify"} =>
       \A i \in DOMAIN filteredChanges :
         ( /\ filteredChanges[i].stage_from = NULL
           /\ filteredChanges[i].stage_to = "ACQ - Offers Made" )
           => \E j \in DOMAIN offerEvents :
                /\ offerEvents[j].person_id = filteredChanges[i].person_id
                /\ offerEvents[j].changed_at = filteredChanges[i].changed_at
                /\ offerEvents[j].stage_from = NULL
                /\ offerEvents[j].offer_type = "direct"
  /\ pc = "done" =>
       /\ ( /\ Len(stageChanges) = 1
            /\ stageChanges[1].stage_from = NULL
            /\ filteredChanges = stageChanges )
            => result.count = IF stageChanges[1].stage_to = "ACQ - Offers Made"
                                THEN 1 ELSE 0

\* null -> Offers Made at 0h is counted next to a direct offer 40h later
C6_Witness ==
  /\ pc = "done"
  /\ Len(stageChanges) = 2
  /\ stageChanges[1].stage_from = NULL
  /\ stageChanges[1].stage_to = "ACQ - Offers Made"
  /\ ~HasWindow
  /\ result.count = 2
  /\ result.offerEvents[1].stage_from = NULL

Range(seq) == { seq[i] : i \in DOMAIN seq }

\* C7: deduplication ignores the offer type: an offer event lying less than
\* 24h after a kept event of the same lead is not kept, whatever the two
\* offer types; Needs Offer -> Offer Not Accepted followed less than 24h later
\* by Needs Offer -> Contract Sent of the same lead counts 1, the first kept.
C7_TypeBlindDedup ==
  pc = "done" =>
    /\ \A k \in DOMAIN result.offerEvents, i \in DOMAIN offerEvents :
         LET kept == result.offerEvents[k]
             ev == offerEvents[i]
             diff == TimeOf(ev) - TimeOf(kept)
         IN ( /\ kept.person_id = ev.person_id
              /\ kept.offer_type # ev.offer_type
              /\ 0 <= diff /\ diff < DayMs )
              => ev \notin Range(result.offerEvents)
    /\ ( /\ Len(stageChanges) = 2
         /\ ~HasWindow
         /\ stageChanges[1].stage_from = "ACQ - Needs Offer"
         /\ stageChanges[1].stage_to = "ACQ - Offer Not Accepted"
         /\ stageChanges[2].stage_from = "ACQ - Needs Offer"
         /\ stageChanges[2].stage_to = "ACQ - Contract Sent"
         /\ stageChanges[2].person_id = stageChanges[1].person_id
         /\ TimeOf(stageChanges[2]) - TimeOf(stageChanges[1]) \in 1..(DayMs - 1) )
         => /\ result.count = 1
            /\ result.offerEvents[1].changed_at = stageChanges[1].changed_at
            /\ result.offerEvents[1].offer_type = "implicit_not_accepted"

C7_Witness ==
  /\ pc = "done"
  /\ stageChanges = << NotAccepted("L1", T0h), ContractSent("L1", T20h) >>
  /\ ~HasWindow
  /\ result.count = 1
  /\ result.offerEvents[1].offer_type = "implicit_not_accepted"

\* the records of stageChanges whose changed_at lies in [startDate, endDate]
InWindow(change) ==
  /\ GetTime(startDate) <= TimeOf(change)
  /\ TimeOf(change) <= GetTime(endDate)

\* C8: a windowed call returns the count and events that the call without
\* bounds returns on the records lying in the window.
C8_WindowSelfContained ==
  (pc = "done" /\ HasWindow) =>
    result = CountOfferEvents(SelectSeq(stageChanges, InWindow), NoDate, NoDate)

\* the window removed an offer event and the call still counted two
C8_Witness ==
  /\ pc = "done"
  /\ HasWindow
  /\ \E i \in DOMAIN stageChanges :
       RefIsOffer(stageChanges[i]) /\ ~InWindow(stageChanges[i])
  /\ result.count = 2

Occurrences(seq, x) == Cardinality({ i \in DOMAIN seq : seq[i] = x })

\* C9: with both bounds given, a record whose changed_at equals startDate or
\* endDate is retained, and no record before startDate or after endDate is
\* retained, classified or counted.
C9_WindowInclusive ==
  (pc # "filter" /\ HasWindow) =>
    /\ \A i \in DOMAIN stageChanges :
         ( \/ TimeOf(stageChanges[i]) = GetTime(startDate)
           \/ TimeOf(stageChanges[i]) = GetTime(endDate) )
           => Occurrences(filteredChanges, stageChanges[i])
                = Occurrences(stageChanges, stageChanges[i])
    /\ \A i \in DOMAIN filteredChanges : InWindow(filteredChanges[i])
    /\ \A i \in DOMAIN offerEvents : InWindow(offerEvents[i])
    /\ \A i \in DOMAIN dedupedOfferEvents : InWindow(dedupedOfferEvents[i])
    /\ pc = "done" =>
         \A i \in DOMAIN result.offerEvents : InWindow(result.offerEvents[i])

\* offers exactly at startDate and exactly at endDate are both counted, a
\* third one outside the window is not
C9_Witness ==
  /\ pc = "done"
  /\ HasWindow
  /\ Len(stageChanges) = 3
  /\ \A i \in DOMAIN stageChanges : RefIsOffer(stageChanges[i])
  /\ \E i \in DOMAIN stageChanges : ~InWindow(stageChanges[i])
  /\ TimesOf(result.offerEvents) = << GetTime(startDate), GetTime(endDate) >>

\* C10: in a windowed call, the earliest in-window offer event of every lead
\* is kept, whatever offer events of the lead lie before startDate, and no
\* event outside the window is returned.
C10_NoDedupAcrossWindow ==
  (pc = "done" /\ HasWindow) =>
    /\ \A i \in DOMAIN stageChanges :
         LET c == stageChanges[i]
         IN ( /\ RefIsOffer(c)
              /\ InWindow(c)
              /\ \A j \in DOMAIN stageChanges :
                   ( /\ stageChanges[j].person_id = c.person_id
                     /\ RefIsOffer(stageChanges[j])
                     /\ InWindow(stageChanges[j]) )
                     => TimeOf(stageChanges[j]) >= TimeOf(c) )
              => \E k \in DOMAIN result.offerEvents :
                   /\ result.offerEvents[k].person_id = c.person_id
                   /\ TimeOf(result.offerEvents[k]) = TimeOf(c)
    /\ \A k \in DOMAIN result.offerEvents : InWindow(result.offerEvents[k])

\* an offer 20h before the window's first offer of the same lead, which is
\* kept all the same
C10_Witness ==
  /\ pc = "done"
  /\ stageChanges = << Direct("L1", T0h), Direct("L1", T20h) >>
  /\ startDate = DateParse(T20h)
  /\ result.count = 1
  /\ TimesOf(result.offerEvents) = << 20 * MS_PER_HOUR >>

\* every reordering of a sequence
Permutations(seq) ==
  LET n == Len(seq)
      bijections == { f \in [1..n -> 1..n] : \A i, j \in 1..n : i # j => f[i] # f[j] }
  IN { [ i \in 1..n |-> seq[f[i]] ] : f \in bijections }

\* the (lead_id, changed_at) pairs of a sequence of events
KeysOf(events) ==
  { <<events[i].person_id, events[i].changed_at>> : i \in DOMAIN events }

\* two offer events of one lead carry the same timestamp
HasTiedOffers(changes) ==
  \E i, j \in DOMAIN changes :
    /\ i # j
    /\ RefIsOffer(changes[i]) /\ RefIsOffer(changes[j])
    /\ changes[i].person_id = changes[j].person_id
    /\ TimeOf(changes[i]) = TimeOf(changes[j])

\* C11 as stated: every permutation of the input yields the same count and the
\* same set of kept events, also when offer events of one lead carry equal
\* timestamps.
C11_OrderIndependent_Original ==
  pc = "done" =>
    \A perm \in Permutations(stageChanges) :
      LET other == CountOfferEvents(perm, startDate, endDate)
      IN /\ other.count = result.count
         /\ Range(other.offerEvents) = Range(result.offerEvents)

\* C11 (amended): every permutation of the input yields the same count and the
\* same (lead, changed_at) pairs of kept events; it yields the same kept
\* events when no two offer events of one lead carry equal timestamps.
C11_OrderIndependentKeys ==
  pc = "done" =>
    \A perm \in Permutations(stageChanges) :
      LET other == CountOfferEvents(perm, startDate, endDate)
      IN /\ other.count = result.count
         /\ KeysOf(other.offerEvents) = KeysOf(result.offerEvents)
         /\ ~HasTiedOffers(FilterChanges(stageChanges, startDate, endDate))
              => other.offerEvents = result.offerEvents

\* three offers of one lead given latest first: the call keeps two of them
C11_Witness ==
  /\ pc = "done"
  /\ Len(stageChanges) = 3
  /\ TimeOf(stageChanges[1]) > TimeOf(stageChanges[2])
  /\ TimeOf(stageChanges[2]) > TimeOf(stageChanges[3])
  /\ \A i \in DOMAIN stageChanges : RefIsOffer(stageChanges[i])
  /\ result.count = 2

\* C12: two completed calls with the same arguments returned the same
\* result, whatever calls came before or between them, and every walk starts
\* with an empty kept list and an empty lastOfferTimeByLead.
C12_DeterministicAcrossCalls ==
  /\ \A i, j \in DOMAIN returned :
       ( /\ returned[i].stageChanges = returned[j].stageChanges
         /\ returned[i].startDate = returned[j].startDate
         /\ returned[i].endDate = returned[j].endDate )
         => returned[i].result = returned[j].result
  /\ (pc = "dedup" /\ idx = 1) =>
       /\ dedupedOfferEvents = << >>
       /\ lastOfferTimeByLead = << >>

\* the same lead's offers counted in a first call, in a call on another input
\* and again in a repetition of the first call
C12_Witness ==
  /\ Len(returned) = 3
  /\ returned[1].stageChanges = returned[3].stageChanges
  /\ returned[1].startDate = returned[3].startDate
  /\ returned[1].endDate = returned[3].endDate
  /\ returned[2].stageChanges # returned[1].stageChanges
  /\ returned[1].result.count >= 1
  /\ returned[2].result.count >= 1

\* a record with a stage_to and a changed_at that parses
WellFormed(change) ==
  change.stage_to # NULL /\ ~IsNaN(DateParse(change.changed_at))

\* C13: a malformed record is skipped: it is never among the returned events,
\* and the call returns what it returns on the input without the malformed
\* records.
C13_MalformedSkipped ==
  pc = "done" =>
    /\ \A k \in DOMAIN result.offerEvents : WellFormed(result.offerEvents[k])
    /\ result = CountOfferEvents(SelectSeq(stageChanges, WellFormed),
                                 startDate, endDate)

\* C14: on an empty collection, with or without bounds, the call runs to its
\* return (every step before it is enabled: nothing throws) and returns
\* count 0 with no events.
C14_EmptyInput ==
  stageChanges = << >> =>
    /\ pc # "done" => ENABLED Next
    /\ pc = "done" => result = [ count |-> 0, offerEvents |-> << >> ]

C14_Witness ==
  /\ pc = "done"
  /\ stageChanges = << >>
  /\ HasWindow
  /\ result.count = 0
  /\ result.offerEvents = << >>

\* C15: the returned count is the number of returned events, a natural number.
C15_CountIsLength ==
  pc = "done" =>
    /\ result.count = Len(result.offerEvents)
    /\ result.count \in Nat

\* a call that discarded an offer event: count below the classified events
C15_Witness ==
  /\ pc = "done"
  /\ result.count >= 1
  /\ Len(offerEvents) > result.count
  /\ result.count = Len(result.offerEvents)

\* C17: no two returned events share lead id and changed_at.
C17_KeysIdentifyOneEvent ==
  pc = "done" =>
    \A i, j \in DOMAIN result.offerEvents :
      ( /\ result.offerEvents[i].person_id = result.offerEvents[j].person_id
        /\ result.offerEvents[i].changed_at = result.offerEvents[j].changed_at )
        => i = j

\* two offer records of one lead with one changed_at came in, one is kept
C17_Witness ==
  /\ pc = "done"
  /\ \E i, j \in DOMAIN offerEvents :
       /\ i # j
       /\ offerEvents[i].person_id = offerEvents[j].person_id
       /\ offerEvents[i].changed_at = offerEvents[j].changed_at
  /\ Cardinality(KeysOf(result.offerEvents)) = result.count
  /\ result.count >= 1

\* C16: the offer events getOfferEventsForDate returns for a date are the
\* events countOfferEvents keeps among the records falling on that date.
C16_ForDateSameAsCount ==
  \A k \in DOMAIN forDateCalls :
    LET call == forDateCalls[k]
        onDate == SelectSeq(call.stageChanges,
                            LAMBDA change : OnTargetDate(change, call.targetDateStr))
        kept == CountOfferEvents(onDate, NoDate, NoDate).offerEvents
    IN /\ Range(call.offerEvents) = Range(kept)
       /\ Len(call.offerEvents) = Len(kept)

-----------------------------------------------------------------------------
(* The email report (reports/weekly_agent_report.py) computes the count in *)
(* SQL with window functions.  Its text is not among the sources; it is    *)
(* modelled here from the specification (sections 4.1 to 4.3): classify,   *)
(* group by lead, walk each lead's times in ascending order anchored on    *)
(* the last kept time.  It works on sets of instants, not on the sorted    *)
(* array and the map of the dashboard.                                     *)

\* section 4.3: both bounds given, inclusive at both ends
ReportInWindow(change, s, e) ==
  (s # NoDate /\ e # NoDate)
    => (GetTime(s) <= TimeOf(change) /\ TimeOf(change) <= GetTime(e))

\* sections 4.1 and 4.2 step 1: the instants of the offer events of one lead
ReportOfferTimes(changes, s, e, lead) ==
  { TimeOf(changes[i]) :
      i \in { k \in DOMAIN changes :
                /\ changes[k].person_id = lead
                /\ ReportInWindow(changes[k], s, e)
                /\ RefIsOffer(changes[k]) } }

\* section 4.2 steps 2 and 3: the number of instants kept, walking them in
\* ascending order; last_kept_time is a one-element sequence, or empty
RECURSIVE ReportKept(_, _)
ReportKept(times, lastKept) ==
  IF times = { } THEN 0
  ELSE LET t == CHOOSE x \in times : \A y \in times : x <= y
           keep == lastKept = << >> \/ t - lastKept[1] >= DEDUP_HOURS * MS_PER_HOUR
       IN IF keep THEN 1 + ReportKept(times \ {t}, <<t>>)
          ELSE ReportKept(times \ {t}, lastKept)

RECURSIVE SumOver(_, _)
SumOver(leads, f) ==
  IF leads = { } THEN 0
  ELSE LET p == CHOOSE x \in leads : TRUE
       IN f[p] + SumOver(leads \ {p}, f)

\* section 4.2 step 4: the size of the surviving set across all leads
ReportOfferCount(changes, s, e) ==
  LET leads == LeadsOf(changes)
  IN SumOver(leads, [ p \in leads |->
                        ReportKept(ReportOfferTimes(changes, s, e, p), << >>) ])

C19_Discards ==
  LET kept == LastKeptTimes(offerEvents[idx].person_id)
  IN /\ kept # << >>
     /\ TimeOf(offerEvents[idx]) - kept[Len(kept)] < DayMs

\* C19: a step of the walk that discards an event leaves the kept list and
\* the last-kept times as they are.  The walk only moves forward over a
\* fixed array and a step adds nothing but the event it stands on, and the
\* return hands out the kept list as it is: a discarded event is never added
\* later.
C19_DiscardIsPermanent ==
  [][ /\ (pc = "dedup" /\ idx <= Len(offerEvents)) =>
           /\ idx' = idx + 1
           /\ offerEvents' = offerEvents
           /\ \/ dedupedOfferEvents' = dedupedOfferEvents
              \/ dedupedOfferEvents' = Append(dedupedOfferEvents, offerEvents[idx])
           /\ C19_Discards =>
                /\ dedupedOfferEvents' = dedupedOfferEvents
                /\ lastOfferTimeByLead' = lastOfferTimeByLead
      /\ (pc = "dedup" /\ idx > Len(offerEvents)) =>
           /\ dedupedOfferEvents' = dedupedOfferEvents
           /\ result'.offerEvents = dedupedOfferEvents ]_vars

\* after the 20h event of 0h, 20h, 40h was discarded: one kept event, the
\* anchor still at 0h
C19_Witness ==
  /\ pc = "dedup"
  /\ idx = 3
  /\ TimesOf(offerEvents) = << 0, 20 * MS_PER_HOUR, 40 * MS_PER_HOUR >>
  /\ LeadsOf(offerEvents) = { "L1" }
  /\ Len(dedupedOfferEvents) = 1
  /\ lastOfferTimeByLead["L1"] = Date(0)

\* a is b with some elements left out
RECURSIVE IsSubseq(_, _)
IsSubseq(a, b) ==
  IF a = << >> THEN TRUE
  ELSE IF b = << >> THEN FALSE
  ELSE IF Head(a) = Head(b) THEN IsSubseq(Tail(a), Tail(b))
  ELSE IsSubseq(a, Tail(b))

\* the positions of the input records an event can stem from: in the window
\* if there is one, matching a classifier rule, with the event's fields
C20_Origins(event) ==
  { k \in DOMAIN stageChanges :
      LET change == stageChanges[k]
      IN /\ HasWindow => InWindow(change)
         /\ RefIsOffer(change)
         /\ event = [ person_id  |-> change.person_id,
                      stage_from |-> change.stage_from,
                      stage_to   |-> change.stage_to,
                      changed_at |-> change.changed_at,
                      offer_type |-> RefType(change.stage_from, change.stage_to) ] }

\* C20: the returned events are a subsequence of the offerEvents array as
\* sorted; each stems from an in-window input record matching a classifier
\* rule, no more returned events than such records carry the same fields, and
\* the returned events of one lead are in ascending changed_at order.
C20_SubsequenceOfOfferEvents ==
  pc = "done" =>
    /\ IsSubseq(result.offerEvents, offerEvents)
    /\ \A k \in DOMAIN result.offerEvents :
         LET event == result.offerEvents[k]
         IN /\ C20_Origins(event) # { }
            /\ Occurrences(result.offerEvents, event) <= Cardinality(C20_Origins(event))
    /\ \A i, j \in DOMAIN result.offerEvents :
         ( /\ i < j
           /\ result.offerEvents[i].person_id = result.offerEvents[j].person_id )
           => TimeOf(result.offerEvents[i]) <= TimeOf(result.offerEvents[j])

\* three records, one of them no offer or discarded, two events of one lead
\* returned
C20_Witness ==
  /\ pc = "done"
  /\ Len(stageChanges) = 3
  /\ Len(result.offerEvents) = 2
  /\ result.offerEvents[1].person_id = result.offerEvents[2].person_id
  /\ IsSubseq(result.offerEvents, offerEvents)

\* C21: every lead with an offer event among the filtered records has an
\* earliest offer event of its own among the returned events, so the count is
\* at least the number of leads with an offer event.
C21_EarliestOfLeadKept ==
  pc = "done" =>
    /\ \A p \in LeadsOf(offerEvents) :
         \E k \in DOMAIN result.offerEvents :
           /\ result.offerEvents[k].person_id = p
           /\ \A i \in DOMAIN offerEvents :
                offerEvents[i].person_id = p
                  => TimeOf(result.offerEvents[k]) <= TimeOf(offerEvents[i])
    /\ result.count >= Cardinality(LeadsOf(offerEvents))

\* two leads, one of them with a second offer event that was discarded
C21_Witness ==
  /\ pc = "done"
  /\ LeadsOf(offerEvents) = { "L1", "L2" }
  /\ Len(offerEvents) = 3
  /\ result.count = 2
  /\ LeadsOf(result.offerEvents) = { "L1", "L2" }

\* the records of lead p, in input order
RecordsOfLead(changes, p) == SelectSeq(changes, LAMBDA change : change.person_id = p)

\* C22: the kept events of a lead are those the call keeps on that lead's
\* records alone, under the same bounds; so whatever is added, removed or
\* changed among the records of other leads, they stay the same.
C22_PerLeadIndependence ==
  pc = "done" =>
    \A p \in { stageChanges[i].person_id : i \in DOMAIN stageChanges } :
      OfLead(result.offerEvents, p) =
        CountOfferEvents(RecordsOfLead(stageChanges, p), startDate, endDate).offerEvents

\* kept events of two leads less than 24h apart from one another
C22_Witness ==
  /\ pc = "done"
  /\ \E i, j \in DOMAIN result.offerEvents :
       /\ result.offerEvents[i].person_id # result.offerEvents[j].person_id
       /\ Abs(TimeOf(result.offerEvents[i]) - TimeOf(result.offerEvents[j])) < DayMs
  /\ \E p \in LeadsOf(offerEvents) :
       Len(OfLead(offerEvents, p)) > Len(OfLead(result.offerEvents, p))

\* C23: the date filter is applied only when both bounds are given; with a
\* bound absent the filter keeps every record and the call returns what the
\* call without bounds returns.
C23_FilterNeedsBothBounds ==
  /\ pc # "filter" =>
       (filteredChanges # stageChanges => (startDate # NoDate /\ endDate # NoDate))
  /\ (pc = "done" /\ (startDate = NoDate \/ endDate = NoDate)) =>
       result = CountOfferEvents(stageChanges, NoDate, NoDate)

\* a call with startDate alone that counted an offer lying before startDate
C23_Witness ==
  /\ pc = "done"
  /\ startDate # NoDate
  /\ endDate = NoDate
  /\ \E k \in DOMAIN result.offerEvents :
       TimeOf(result.offerEvents[k]) < GetTime(startDate)

\* the largest number of events of a sequence that are pairwise at least 24h
\* apart
MaxSpaced(events) ==
  LET spaced == { S \in SUBSET DOMAIN events :
                    \A i, j \in S :
                      i # j => Abs(TimeOf(events[i]) - TimeOf(events[j])) >= DayMs }
  IN CHOOSE n \in 0..Len(events) :
       /\ \E S \in spaced : Cardinality(S) = n
       /\ \A S \in spaced : Cardinality(S) <= n

\* a sequence without its k-th element
Without(seq, k) == SubSeq(seq, 1, k - 1) \o SubSeq(seq, k + 1, Len(seq))

\* C24: for every lead the number of kept events is the largest number of
\* the lead's offer events that are pairwise at least 24h apart, and the
\* input with one record less never has a greater count.
C24_GreedyIsOptimal ==
  pc = "done" =>
    /\ \A p \in LeadsOf(offerEvents) :
         Len(OfLead(result.offerEvents, p)) = MaxSpaced(OfLead(offerEvents, p))
    /\ \A k \in DOMAIN stageChanges :
         CountOfferEvents(Without(stageChanges, k), startDate, endDate).count
           <= result.count

\* three offer events of one lead, two of them kept, no three of them spaced
C24_Witness ==
  /\ pc = "done"
  /\ Len(OfLead(offerEvents, "L1")) = 3
  /\ MaxSpaced(OfLead(offerEvents, "L1")) = 2
  /\ Len(OfLead(result.offerEvents, "L1")) = 2

\* C25: no step of a call changes the stageChanges array: the same records,
\* in the same order, with the same field values, also at the return, where
\* the caller's array is the one the call was given.
C25_InputNotModified ==
  [][ /\ stageChanges' = stageChanges
      /\ pc' = "done" => returned'[Len(returned')].stageChanges = stageChanges ]_vars

\* a finished call without bounds whose offer events the sort reordered,
\* while the input is still out of order
C25_Witness ==
  /\ pc = "done"
  /\ ~HasWindow
  /\ filteredChanges = stageChanges
  /\ stageChanges # SortEvents(stageChanges)
  /\ Len(offerEvents) = Len(stageChanges)
  /\ TimesOf(offerEvents) # TimesOf(stageChanges)

\* the sum of the offers of a sequence of buckets
RECURSIVE SumOffers(_)
SumOffers(buckets) ==
  IF buckets = << >> THEN 0
  ELSE Head(buckets).offers + SumOffers(Tail(buckets))

\* C26: in processSupabaseData each deduplicated offer event adds one to at
\* most one daily bucket; the offers of the weekly buckets sum up to the
\* offers of the daily buckets; and that sum is at most the offersTotal of
\* the summary, which is the count of countOfferEvents over the records of
\* the requested period.
C26_OffersConserved ==
  [][ /\ ( /\ pc = "done"
           /\ dashboard.phase = "offers"
           /\ dashboard.next <= Len(result.offerEvents) ) =>
           LET changed == { i \in DOMAIN dashboard.dailyData :
                              dashboard'.dailyData[i] # dashboard.dailyData[i] }
           IN /\ Cardinality(changed) <= 1
              /\ \A i \in changed :
                   dashboard'.dailyData[i].offers = dashboard.dailyData[i].offers + 1
              /\ dashboard'.next = dashboard.next + 1
      /\ dashboard'.phase \in { "totals", "summary" } =>
           SumOffers(dashboard'.weeklyData) = SumOffers(dashboard'.dailyData)
      /\ dashboard'.phase = "summary" =>
           /\ SumOffers(dashboard'.dailyData) <= dashboard'.offersTotal
           /\ dashboard'.offersTotal =
                CountOfferEvents(RequestedPeriodChanges(dashboard.stageChanges,
                                                        dashboard.startDate,
                                                        dashboard.endDate),
                                 NoDate, NoDate).count ]_vars

\* a summary over two weeks: three offers counted, two of them on two days
\* of the first week
C26_Witness ==
  /\ dashboard.phase = "summary"
  /\ Len(dashboard.weeklyData) = 2
  /\ dashboard.weeklyData[1].offers = 2
  /\ dashboard.weeklyData[2].offers = 1
  /\ dashboard.offersTotal = 3
  /\ \A i \in DOMAIN dashboard.dailyData : dashboard.dailyData[i].offers <= 1

====
